---- MODULE Spec2Model ----
(***************************************************************************)
(* Model of the KEDA external scaler for Redis Bull queues                 *)
(* (go/redis_bull_scaler.go): process startup (main, NewServer), the three *)
(* gRPC handlers IsActive, GetMetricSpec and GetMetrics, and the Redis     *)
(* store they read.                                                        *)
(***************************************************************************)
EXTENDS Integers, Sequences, FiniteSets, TLC

VARIABLES
    pc,           \* position of main(): "main", "getEnvHost", ..., "serving", "exited", "crashed"
    exitCode,     \* process exit code, -1 while the process runs
    listener,     \* TRUE once net.Listen has bound the TCP port
    env,          \* the process environment: REDIS_HOST, REDIS_PORT
    rdb,          \* the client built by redis.NewClient (local of NewServer)
    redisClient,  \* server.redisClient, the only field of the server
    pings,        \* number of PING commands sent to the store
    storeUp,      \* TRUE while the store answers commands
    store,        \* the store: list key -> length of the list
    held,         \* jobs a worker has popped from the wait list and not yet pushed
    calls         \* per caller: the handler invocation in flight or last returned

vars == <<pc, exitCode, listener, env, rdb, redisClient, pings, storeUp, store, held, calls>>

(***************************************************************************)
(* Bounds of the model.                                                    *)
(***************************************************************************)
MaxLen == 3          \* largest list length the store reaches
NumWorkers == 1      \* number of workers moving jobs from the wait to the active list

\* the callers whose calls the gRPC server dispatches, each on its own goroutine
Callers == {"keda"}

(***************************************************************************)
(* Texts.  A Go string is modelled by a TLA+ string; Runes gives the bytes *)
(* of every text the model feeds to strconv.                               *)
(***************************************************************************)
TextTable ==
    { <<"", <<>> >>,
      <<"0", <<"0">> >>,
      <<"1", <<"1">> >>,
      <<"2", <<"2">> >>,
      <<"5", <<"5">> >>,
      <<"-5", <<"-", "5">> >>,
      <<"+2", <<"+", "2">> >>,
      <<"007", <<"0", "0", "7">> >>,
      <<"abc", <<"a", "b", "c">> >>,
      <<"10", <<"1", "0">> >>,
      <<"1000000", <<"1", "0", "0", "0", "0", "0", "0">> >>,
      <<"9223372036854775808",
        <<"9","2","2","3","3","7","2","0","3","6","8","5","4","7","7","5","8","0","8">> >>,
      <<"6379", <<"6", "3", "7", "9">> >>,
      <<"65535", <<"6", "5", "5", "3", "5">> >>,
      <<"65536", <<"6", "5", "5", "3", "6">> >>,
      <<"-1", <<"-", "1">> >>,
      <<"+80", <<"+", "8", "0">> >>,
      <<"080", <<"0", "8", "0">> >>,
      <<"6379x", <<"6", "3", "7", "9", "x">> >> }

Runes(s) == (CHOOSE p \in TextTable : p[1] = s)[2]

DigitRunes == {"0", "1", "2", "3", "4", "5", "6", "7", "8", "9"}

DigitVal(c) ==
    CASE c = "0" -> 0 [] c = "1" -> 1 [] c = "2" -> 2 [] c = "3" -> 3
      [] c = "4" -> 4 [] c = "5" -> 5 [] c = "6" -> 6 [] c = "7" -> 7
      [] c = "8" -> 8 [] c = "9" -> 9

(***************************************************************************)
(* 64-bit quantities of strconv are kept as decimal digit sequences        *)
(* without leading zeros (zero is the empty sequence), so that the range   *)
(* checks against 2^63 and 2^64 are exact.                                 *)
(***************************************************************************)
NatLess(a, b) ==
    \/ Len(a) < Len(b)
    \/ /\ Len(a) = Len(b)
       /\ \E i \in 1..Len(a) :
            /\ a[i] < b[i]
            /\ \A j \in 1..(i - 1) : a[j] = b[j]

MulAdd10(n, d) == IF n = <<>> /\ d = 0 THEN <<>> ELSE Append(n, d)

\* maxUint64 = 18446744073709551615
MaxUint64 == <<1,8,4,4,6,7,4,4,0,7,3,7,0,9,5,5,1,6,1,5>>
\* cutoff of ParseUint in base 10: maxUint64/10 + 1
CutoffUint64 == <<1,8,4,4,6,7,4,4,0,7,3,7,0,9,5,5,1,6,2>>
\* cutoff of ParseInt for bitSize 64: 1 << 63
CutoffInt64 == <<9,2,2,3,3,7,2,0,3,6,8,5,4,7,7,5,8,0,8>>

RECURSIVE ToInt(_)
ToInt(n) == IF n = <<>> THEN 0 ELSE 10 * ToInt(SubSeq(n, 1, Len(n) - 1)) + n[Len(n)]

RECURSIVE ParseUintLoop(_, _, _)
ParseUintLoop(s, i, n) ==
    IF i > Len(s) THEN [err |-> "nil", un |-> n]
    ELSE IF s[i] \notin DigitRunes THEN [err |-> "syntax", un |-> <<>>]
    ELSE IF ~NatLess(n, CutoffUint64) THEN [err |-> "range", un |-> MaxUint64]
    ELSE LET n1 == MulAdd10(n, DigitVal(s[i]))
         IN  IF NatLess(MaxUint64, n1) THEN [err |-> "range", un |-> MaxUint64]
             ELSE ParseUintLoop(s, i + 1, n1)

\* strconv.ParseUint(s, 10, 64)
ParseUint(s) ==
    IF s = <<>> THEN [err |-> "syntax", un |-> <<>>] ELSE ParseUintLoop(s, 1, <<>>)

\* strconv.ParseInt(s, 10, 64); val is meaningful only when err = "nil"
ParseInt(s) ==
    IF s = <<>> THEN [err |-> "syntax", val |-> 0]
    ELSE LET neg == s[1] = "-"
             body == IF s[1] \in {"+", "-"} THEN Tail(s) ELSE s
             r == ParseUint(body)
         IN  IF r.err = "syntax" THEN [err |-> "syntax", val |-> 0]
             ELSE IF ~neg /\ ~NatLess(r.un, CutoffInt64) THEN [err |-> "range", val |-> 0]
             ELSE IF neg /\ NatLess(CutoffInt64, r.un) THEN [err |-> "range", val |-> 0]
             ELSE [err |-> "nil", val |-> IF neg THEN 0 - ToInt(r.un) ELSE ToInt(r.un)]

\* strconv.Atoi(s): ParseInt(s, 10, 0) on a 64-bit platform
Atoi(s) == ParseInt(s)


(***************************************************************************)
(* Values of the program.                                                  *)
(***************************************************************************)
WaitKey == "bull:q:wait"
ActiveKey == "bull:q:active"
StoreKeys == {WaitKey, ActiveKey}

MetaKeys == {"waitList", "activeList", "maxPods"}
NameTexts == {"", WaitKey, ActiveKey}
MaxPodsTexts == {"", "0", "1", "2", "5", "-5", "+2", "007", "abc", "10", "1000000",
                 "9223372036854775808"}
MetaTexts(key) == IF key = "maxPods" THEN MaxPodsTexts ELSE NameTexts

\* map[string]string values of ScalerMetadata: any subset of the keys may be present
Metadatas ==
    UNION { { m \in [D -> NameTexts \cup MaxPodsTexts] : \A k \in D : m[k] \in MetaTexts(k) } :
            D \in SUBSET MetaKeys }

Namespaces == {"bullmq-test"}
Names == {"worker-a", "worker-b"}
MetricNames == {"bull_queue_length", "other"}

\* pb.ScaledObjectRef
ScaledObjectRefs ==
    { [namespace |-> ns, name |-> n, scalerMetadata |-> m] :
        ns \in Namespaces, n \in Names, m \in Metadatas }
NilRef == [nil |-> TRUE]
\* pb.GetMetricsRequest; ScaledObjectRef is a pointer and may be nil
GetMetricsRequests ==
    { [scaledObjectRef |-> r, metricName |-> "bull_queue_length"] : r \in ScaledObjectRefs }
    \cup { [scaledObjectRef |-> NilRef, metricName |-> mn] : mn \in MetricNames }

EnvHosts == {"", "redis"}
EnvPorts == {"", "6379", "0", "65536", "abc", "-1"}
\* REDIS_PORT texts around the limits of validatePortNumber
PortTexts == EnvPorts \cup {"1", "65535", "+80", "080", "6379x", "1000000", "9223372036854775808"}

\* error values
Nil == [kind |-> "nil"]
MissingMetadata(key) == [kind |-> "MissingMetadata", key |-> key]
InvalidCeiling(value) == [kind |-> "InvalidCeiling", value |-> value]
StoreUnavailable == [kind |-> "StoreError", cause |-> "unavailable"]
Cancelled == [kind |-> "StoreError", cause |-> "context canceled"]

NoClient == [nil |-> TRUE]
NoReq == [nil |-> TRUE]
NoRet == [nil |-> TRUE]

IdleCall ==
    [pc |-> "idle", op |-> "none", req |-> NoReq,
     waitList |-> "", activeList |-> "", maxPods |-> 0,
     waitLen |-> 0, queries |-> <<>>, cancelled |-> FALSE, ret |-> NoRet]

(***************************************************************************)
(* Helpers of the program.                                                 *)
(***************************************************************************)
\* getMetadataValue that only asks whether the key is in the map
getMetadataValueKeyOnly(metadata, key) ==
    IF key \notin DOMAIN metadata
    THEN [value |-> "", err |-> MissingMetadata(key)]
    ELSE [value |-> metadata[key], err |-> Nil]

\* getMetadataValue(metadata, key)
getMetadataValue(metadata, key) ==
    IF key \notin DOMAIN metadata \/ metadata[key] = ""
    THEN [value |-> "", err |-> MissingMetadata(key)]
    ELSE [value |-> metadata[key], err |-> Nil]

\* validatePortNumber accepting port 0
validatePortNumberFromZero(portStr) ==
    LET r == Atoi(Runes(portStr))
    IN  IF r.err # "nil" THEN FALSE
        ELSE IF r.val < 0 \/ r.val > 65535 THEN FALSE
        ELSE TRUE

\* validatePortNumber(portStr): TRUE when it returns nil
validatePortNumber(portStr) ==
    LET r == Atoi(Runes(portStr))
    IN  IF r.err # "nil" THEN FALSE
        ELSE IF r.val <= 0 \/ r.val > 65535 THEN FALSE
        ELSE TRUE

\* LLen under context.Background() instead of the context of the call
LLenBackground(c, key) ==
    IF ~storeUp THEN [val |-> 0, err |-> StoreUnavailable]
    ELSE [val |-> IF key \in DOMAIN store THEN store[key] ELSE 0, err |-> Nil]

\* s.redisClient.LLen(ctx, key).Result() issued by caller c
LLen(c, key) ==
    IF calls[c].cancelled THEN [val |-> 0, err |-> Cancelled]
    ELSE IF ~storeUp THEN [val |-> 0, err |-> StoreUnavailable]
    ELSE [val |-> IF key \in DOMAIN store THEN store[key] ELSE 0, err |-> Nil]


(***************************************************************************)
(* Initial state: the process is started with some environment, against a  *)
(* store with empty lists, reachable or not.                               *)
(***************************************************************************)
Init ==
    /\ pc = "main"
    /\ exitCode = -1
    /\ listener = FALSE
    /\ env \in [REDIS_HOST : EnvHosts, REDIS_PORT : EnvPorts]
    /\ rdb = NoClient
    /\ redisClient = NoClient
    /\ pings = 0
    /\ storeUp \in BOOLEAN
    /\ store = [k \in StoreKeys |-> 0]
    /\ held = 0
    /\ calls = [c \in Callers |-> IdleCall]

\* log.Fatalf: os.Exit(1)
Fatalf == pc' = "exited" /\ exitCode' = 1

(***************************************************************************)
(* main and NewServer, one action per statement that can fail or that      *)
(* touches the outside world.                                              *)
(***************************************************************************)
\* main: net.Listen("tcp", ":8080")
MainListen ==
    /\ pc = "main"
    /\ \/ listener' = TRUE /\ pc' = "getEnvHost" /\ UNCHANGED exitCode
       \/ Fatalf /\ UNCHANGED listener
    /\ UNCHANGED <<env, rdb, redisClient, pings, storeUp, store, held, calls>>

\* NewServer: redisHost := getEnv("REDIS_HOST")
GetEnvHost ==
    /\ pc = "getEnvHost"
    /\ IF env.REDIS_HOST = "" THEN Fatalf ELSE pc' = "getEnvPort" /\ UNCHANGED exitCode
    /\ UNCHANGED <<listener, env, rdb, redisClient, pings, storeUp, store, held, calls>>

\* NewServer: redisPort := getEnv("REDIS_PORT")
GetEnvPort ==
    /\ pc = "getEnvPort"
    /\ IF env.REDIS_PORT = "" THEN Fatalf ELSE pc' = "validatePort" /\ UNCHANGED exitCode
    /\ UNCHANGED <<listener, env, rdb, redisClient, pings, storeUp, store, held, calls>>

\* ValidatePort that reports the invalid port and carries on
ValidatePortLogOnly ==
    /\ pc = "validatePort"
    /\ pc' = "newClient" /\ UNCHANGED exitCode
    /\ UNCHANGED <<listener, env, rdb, redisClient, pings, storeUp, store, held, calls>>

\* NewServer: validatePortNumber(redisPort)
ValidatePort ==
    /\ pc = "validatePort"
    /\ IF validatePortNumber(env.REDIS_PORT)
       THEN pc' = "newClient" /\ UNCHANGED exitCode
       ELSE Fatalf
    /\ UNCHANGED <<listener, env, rdb, redisClient, pings, storeUp, store, held, calls>>

\* NewServer: rdb := redis.NewClient(...); no command is sent yet
NewClient ==
    /\ pc = "newClient"
    /\ rdb' = [addr |-> <<env.REDIS_HOST, env.REDIS_PORT>>]
    /\ pc' = "ping"
    /\ UNCHANGED <<exitCode, listener, env, redisClient, pings, storeUp, store, held, calls>>

\* Ping with the error of the PING ignored
PingIgnoringError ==
    /\ pc = "ping"
    /\ pings' = pings + 1
    /\ redisClient' = rdb /\ pc' = "serve" /\ UNCHANGED exitCode
    /\ UNCHANGED <<listener, env, rdb, storeUp, store, held, calls>>

\* NewServer: rdb.Ping(...), then return &server{redisClient: rdb}
Ping ==
    /\ pc = "ping"
    /\ pings' = pings + 1
    /\ IF storeUp
       THEN redisClient' = rdb /\ pc' = "serve" /\ UNCHANGED exitCode
       ELSE Fatalf /\ UNCHANGED redisClient
    /\ UNCHANGED <<listener, env, rdb, storeUp, store, held, calls>>

\* main: RegisterExternalScalerServer, grpcServer.Serve(lis)
Serve ==
    /\ pc = "serve"
    /\ pc' = "serving"
    /\ UNCHANGED <<exitCode, listener, env, rdb, redisClient, pings, storeUp, store, held, calls>>

\* main: grpcServer.Serve returns an error; the handlers in flight end with the process
ServeFail ==
    /\ pc = "serving"
    /\ Fatalf
    /\ calls' = [c \in DOMAIN calls |-> IdleCall]
    /\ UNCHANGED <<listener, env, rdb, redisClient, pings, storeUp, store, held>>

\* main installs no signal handler and never calls grpcServer.GracefulStop: the SIGTERM
\* that asks a serving process to shut down ends it by the default disposition of the
\* signal (status 128 + 15), the handlers in flight with it
Sigterm ==
    /\ pc = "serving"
    /\ pc' = "exited"
    /\ exitCode' = 143
    /\ calls' = [c \in DOMAIN calls |-> IdleCall]
    /\ UNCHANGED <<listener, env, rdb, redisClient, pings, storeUp, store, held>>

(***************************************************************************)
(* The handlers.  A handler runs from its entry to its first store read in *)
(* one step, and from one store read to the next (or to its return) in one *)
(* step; calls[c].queries records the store queries the call has issued.   *)
(***************************************************************************)
Returned(call, resp, err) ==
    [call EXCEPT !.pc = "done", !.waitList = "", !.activeList = "", !.maxPods = 0,
                 !.waitLen = 0, !.ret = [resp |-> resp, err |-> err]]

Entered(op, req) == [IdleCall EXCEPT !.pc = "entered", !.op = op, !.req = req]

Queried(call, key, r) ==
    [call EXCEPT !.queries = Append(@, [key |-> key, val |-> r.val, err |-> r.err])]

\* pb.IsActiveResponse
IsActiveResponse(result) == [result |-> result]

\* IsActiveResolve that also requires maxPods
IsActiveResolveWithMaxPods(req) ==
    LET call == Entered("IsActive", req)
        w == getMetadataValue(req.scalerMetadata, "waitList")
        a == getMetadataValue(req.scalerMetadata, "activeList")
        m == getMetadataValue(req.scalerMetadata, "maxPods")
    IN  IF w.err # Nil THEN Returned(call, IsActiveResponse(FALSE), w.err)
        ELSE IF a.err # Nil THEN Returned(call, IsActiveResponse(FALSE), a.err)
        ELSE IF m.err # Nil THEN Returned(call, IsActiveResponse(FALSE), m.err)
        ELSE [call EXCEPT !.pc = "readWait", !.waitList = w.value, !.activeList = a.value]

\* IsActive, lines 81-95: metadata resolution
IsActiveResolve(req) ==
    LET call == Entered("IsActive", req)
        w == getMetadataValue(req.scalerMetadata, "waitList")
        a == getMetadataValue(req.scalerMetadata, "activeList")
    IN  IF w.err # Nil THEN Returned(call, IsActiveResponse(FALSE), w.err)
        ELSE IF a.err # Nil THEN Returned(call, IsActiveResponse(FALSE), a.err)
        ELSE [call EXCEPT !.pc = "readWait", !.waitList = w.value, !.activeList = a.value]

\* IsActiveWaitLen going on to the active list when the read of the wait list fails
IsActiveWaitLenContinue(call, r) ==
    LET q == Queried(call, call.waitList, r)
    IN  [q EXCEPT !.pc = "readActive", !.waitLen = r.val]

\* IsActiveWaitLen answering "inactive" without error when the read fails
IsActiveWaitLenSwallow(call, r) ==
    LET q == Queried(call, call.waitList, r)
    IN  IF r.err # Nil THEN Returned(q, IsActiveResponse(FALSE), Nil)
        ELSE [q EXCEPT !.pc = "readActive", !.waitLen = r.val]

\* IsActive, lines 97-101: r is the outcome of LLen(ctx, waitList)
IsActiveWaitLen(call, r) ==
    LET q == Queried(call, call.waitList, r)
    IN  IF r.err # Nil THEN Returned(q, IsActiveResponse(FALSE), r.err)
        ELSE [q EXCEPT !.pc = "readActive", !.waitLen = r.val]

\* IsActiveResult looking at the wait list only
IsActiveResultWaitOnly(waitLen, activeLen) == waitLen > 0

\* IsActive, line 109
IsActiveResult(waitLen, activeLen) == (waitLen + activeLen) > 0

\* IsActiveActiveLen reading the wait list a second time
IsActiveActiveLenWrongKey(call, r) ==
    LET q == Queried(call, call.waitList, r)
    IN  IF r.err # Nil THEN Returned(q, IsActiveResponse(FALSE), r.err)
        ELSE Returned(q, IsActiveResponse(IsActiveResult(call.waitLen, r.val)), Nil)

\* IsActive, lines 103-111: r is the outcome of LLen(ctx, activeList)
IsActiveActiveLen(call, r) ==
    LET q == Queried(call, call.activeList, r)
    IN  IF r.err # Nil THEN Returned(q, IsActiveResponse(FALSE), r.err)
        ELSE Returned(q, IsActiveResponse(IsActiveResult(call.waitLen, r.val)), Nil)

\* pb.GetMetricSpecResponse returned by GetMetricSpec, lines 118-125
MetricSpecResponse ==
    [metricSpecs |-> << [metricName |-> "bull_queue_length", targetSize |-> 1] >>]

\* GetMetricSpecReturn requiring the waitList key
GetMetricSpecValidating(req) ==
    LET w == getMetadataValue(req.scalerMetadata, "waitList")
    IN  IF w.err # Nil
        THEN Returned(Entered("GetMetricSpec", req), [metricSpecs |-> <<>>], w.err)
        ELSE Returned(Entered("GetMetricSpec", req), MetricSpecResponse, Nil)

\* GetMetricSpec, lines 115-126
GetMetricSpecReturn(req) ==
    Returned(Entered("GetMetricSpec", req), MetricSpecResponse, Nil)

\* pb.GetMetricsResponse{}
EmptyMetricsResponse == [metricValues |-> <<>>]

\* ValidMaxPods accepting zero
ValidMaxPodsNonNegative(maxPodsStr) ==
    LET p == ParseInt(Runes(maxPodsStr))
    IN  ~(p.err # "nil" \/ p.val < 0)

\* GetMetrics, lines 150-154: TRUE when maxPodsStr is accepted
ValidMaxPods(maxPodsStr) ==
    LET p == ParseInt(Runes(maxPodsStr))
    IN  ~(p.err # "nil" \/ p.val <= 0)

\* GetMetricsResolve checking maxPods before the names of the lists
GetMetricsResolveCeilingFirst(req) ==
    LET call == Entered("GetMetrics", req)
        md == req.scaledObjectRef.scalerMetadata
        w == getMetadataValue(md, "waitList")
        a == getMetadataValue(md, "activeList")
        m == getMetadataValue(md, "maxPods")
    IN  IF m.err # Nil THEN Returned(call, EmptyMetricsResponse, m.err)
        ELSE IF ~ValidMaxPods(m.value)
             THEN Returned(call, EmptyMetricsResponse, InvalidCeiling(m.value))
        ELSE IF w.err # Nil THEN Returned(call, EmptyMetricsResponse, w.err)
        ELSE IF a.err # Nil THEN Returned(call, EmptyMetricsResponse, a.err)
        ELSE [call EXCEPT !.pc = "readWait", !.waitList = w.value, !.activeList = a.value,
                          !.maxPods = ParseInt(Runes(m.value)).val]

\* GetMetricsResolve without the checks of maxPods
GetMetricsResolveNoCeilingCheck(req) ==
    LET call == Entered("GetMetrics", req)
        md == req.scaledObjectRef.scalerMetadata
        w == getMetadataValue(md, "waitList")
        a == getMetadataValue(md, "activeList")
        m == getMetadataValue(md, "maxPods")
    IN  IF w.err # Nil THEN Returned(call, EmptyMetricsResponse, w.err)
        ELSE IF a.err # Nil THEN Returned(call, EmptyMetricsResponse, a.err)
        ELSE [call EXCEPT !.pc = "readWait", !.waitList = w.value, !.activeList = a.value,
                          !.maxPods = ParseInt(Runes(m.value)).val]

\* GetMetrics, lines 132-156: metadata resolution and ceiling validation
GetMetricsResolve(req) ==
    LET call == Entered("GetMetrics", req)
        md == req.scaledObjectRef.scalerMetadata
        w == getMetadataValue(md, "waitList")
        a == getMetadataValue(md, "activeList")
        m == getMetadataValue(md, "maxPods")
    IN  IF w.err # Nil THEN Returned(call, EmptyMetricsResponse, w.err)
        ELSE IF a.err # Nil THEN Returned(call, EmptyMetricsResponse, a.err)
        ELSE IF m.err # Nil THEN Returned(call, EmptyMetricsResponse, m.err)
        ELSE IF ~ValidMaxPods(m.value)
             THEN Returned(call, EmptyMetricsResponse, InvalidCeiling(m.value))
        ELSE [call EXCEPT !.pc = "readWait", !.waitList = w.value, !.activeList = a.value,
                          !.maxPods = ParseInt(Runes(m.value)).val]

\* GetMetricsWaitLen issuing the failed read again
GetMetricsWaitLenRetry(call, r) ==
    LET q == Queried(call, call.waitList, r)
    IN  IF r.err # Nil THEN q
        ELSE [q EXCEPT !.pc = "readActive", !.waitLen = r.val]

\* GetMetrics, lines 158-162: r is the outcome of LLen(ctx, waitList)
GetMetricsWaitLen(call, r) ==
    LET q == Queried(call, call.waitList, r)
    IN  IF r.err # Nil THEN Returned(q, EmptyMetricsResponse, r.err)
        ELSE [q EXCEPT !.pc = "readActive", !.waitLen = r.val]

\* MetricValue with the ceiling applied to each counter before summing
MetricValueClampEach(waitLen, activeLen, maxPods) ==
    (IF waitLen > maxPods THEN maxPods ELSE waitLen)
    + (IF activeLen > maxPods THEN maxPods ELSE activeLen)

\* GetMetrics, lines 170-174: the capped total
MetricValue(waitLen, activeLen, maxPods) ==
    LET total == waitLen + activeLen
    IN  IF total > maxPods THEN maxPods ELSE total

\* GetMetricsActiveLen naming the value by the metricName of the request
GetMetricsActiveLenEchoName(call, r) ==
    LET q == Queried(call, call.activeList, r)
    IN  IF r.err # Nil THEN Returned(q, EmptyMetricsResponse, r.err)
        ELSE Returned(q,
                 [metricValues |->
                     << [metricName |-> call.req.metricName,
                         metricValue |-> MetricValue(call.waitLen, r.val, call.maxPods)] >>],
                 Nil)

\* GetMetricsActiveLen counting an unreadable active list as empty
GetMetricsActiveLenAsZero(call, r) ==
    LET q == Queried(call, call.activeList, r)
    IN  Returned(q,
            [metricValues |->
                << [metricName |-> "bull_queue_length",
                    metricValue |-> MetricValue(call.waitLen, r.val, call.maxPods)] >>],
            Nil)

\* GetMetrics, lines 164-181: r is the outcome of LLen(ctx, activeList)
GetMetricsActiveLen(call, r) ==
    LET q == Queried(call, call.activeList, r)
    IN  IF r.err # Nil THEN Returned(q, EmptyMetricsResponse, r.err)
        ELSE Returned(q,
                 [metricValues |->
                     << [metricName |-> "bull_queue_length",
                         metricValue |-> MetricValue(call.waitLen, r.val, call.maxPods)] >>],
                 Nil)


(***************************************************************************)
(* Handler actions.  The gRPC server dispatches a call only while it is    *)
(* serving; a caller issues its next call after it received the outcome of *)
(* the previous one.                                                       *)
(***************************************************************************)
CanCall(c) == pc = "serving" /\ calls[c].pc = "idle"

Running(c, op, at) == pc = "serving" /\ calls[c].op = op /\ calls[c].pc = at

ProcessVars == <<pc, exitCode, listener, env, rdb, redisClient, pings>>
StoreVars == <<storeUp, store, held>>

\* IsActiveBeginWith taking the lists of the workload named worker-b the other way round
IsActiveBeginByName(c, reqs) ==
    /\ CanCall(c)
    /\ \E req \in reqs :
         LET md == req.scalerMetadata
             byName == IF req.name = "worker-b" /\ {"waitList", "activeList"} \subseteq DOMAIN md
                       THEN [req EXCEPT !.scalerMetadata =
                               [md EXCEPT !["waitList"] = md["activeList"],
                                          !["activeList"] = md["waitList"]]]
                       ELSE req
         IN  calls' = [calls EXCEPT ![c] = [IsActiveResolve(byName) EXCEPT !.req = req]]
    /\ UNCHANGED <<ProcessVars, StoreVars>>

\* IsActive is dispatched for caller c with one of the requests reqs
IsActiveBeginWith(c, reqs) ==
    /\ CanCall(c)
    /\ \E req \in reqs : calls' = [calls EXCEPT ![c] = IsActiveResolve(req)]
    /\ UNCHANGED <<ProcessVars, StoreVars>>

IsActiveBegin(c) == IsActiveBeginWith(c, ScaledObjectRefs)

\* IsActiveReadWait popping the wait list instead of asking for its length
IsActiveReadWaitPopping(c) ==
    /\ Running(c, "IsActive", "readWait")
    /\ calls' = [calls EXCEPT ![c] = IsActiveWaitLen(@, LLen(c, @.waitList))]
    /\ store' = [k \in DOMAIN store |->
                   IF k = calls[c].waitList /\ store[k] > 0 /\ storeUp THEN store[k] - 1
                   ELSE store[k]]
    /\ UNCHANGED <<ProcessVars, storeUp, held>>

IsActiveReadWait(c) ==
    /\ Running(c, "IsActive", "readWait")
    /\ calls' = [calls EXCEPT ![c] = IsActiveWaitLen(@, LLen(c, @.waitList))]
    /\ UNCHANGED <<ProcessVars, StoreVars>>

\* IsActiveReadActive dropping the length it read
IsActiveReadActiveDiscarding(c) ==
    /\ Running(c, "IsActive", "readActive")
    /\ calls' = [calls EXCEPT ![c] =
                   IsActiveActiveLen(@, [LLen(c, @.activeList) EXCEPT !.val = 0])]
    /\ UNCHANGED <<ProcessVars, StoreVars>>

IsActiveReadActive(c) ==
    /\ Running(c, "IsActive", "readActive")
    /\ calls' = [calls EXCEPT ![c] = IsActiveActiveLen(@, LLen(c, @.activeList))]
    /\ UNCHANGED <<ProcessVars, StoreVars>>

\* GetMetricSpecWith building a client of its own and storing it in the server
GetMetricSpecWithNewClient(c, reqs) ==
    /\ CanCall(c)
    /\ \E req \in reqs : calls' = [calls EXCEPT ![c] = GetMetricSpecReturn(req)]
    /\ redisClient' = [addr |-> <<env.REDIS_HOST, env.REDIS_PORT>>, db |-> 1]
    /\ UNCHANGED <<pc, exitCode, listener, env, rdb, pings, StoreVars>>

\* GetMetricSpec is dispatched for caller c with one of the requests reqs
GetMetricSpecWith(c, reqs) ==
    /\ CanCall(c)
    /\ \E req \in reqs : calls' = [calls EXCEPT ![c] = GetMetricSpecReturn(req)]
    /\ UNCHANGED <<ProcessVars, StoreVars>>

GetMetricSpec(c) == GetMetricSpecWith(c, ScaledObjectRefs)

\* GetMetricsBeginWith keeping the length of the wait list from one poll to the next
GetMetricsBeginWithCachedWait(c, reqs) ==
    /\ CanCall(c)
    /\ \E req \in reqs :
         /\ req.scaledObjectRef # NilRef
         /\ LET call == GetMetricsResolve(req)
            IN  calls' = [calls EXCEPT ![c] =
                            IF call.pc = "readWait"
                            THEN [call EXCEPT !.pc = "readActive", !.waitLen = calls[c].waitLen]
                            ELSE call]
    /\ UNCHANGED <<ProcessVars, StoreVars>>

\* GetMetrics is dispatched for caller c with one of the requests reqs
GetMetricsBeginWith(c, reqs) ==
    /\ CanCall(c)
    /\ \E req \in reqs :
         /\ req.scaledObjectRef # NilRef
         /\ calls' = [calls EXCEPT ![c] = GetMetricsResolve(req)]
    /\ UNCHANGED <<ProcessVars, StoreVars>>

GetMetricsBegin(c) == GetMetricsBeginWith(c, GetMetricsRequests)

\* GetMetrics, line 130: req.ScaledObjectRef.Namespace on a nil pointer panics,
\* and the panic of a handler goroutine ends the process with exit code 2
GetMetricsPanic(c) ==
    /\ CanCall(c)
    /\ \E req \in GetMetricsRequests : req.scaledObjectRef = NilRef
    /\ pc' = "crashed"
    /\ exitCode' = 2
    /\ calls' = [d \in DOMAIN calls |-> IdleCall]
    /\ UNCHANGED <<listener, env, rdb, redisClient, pings, StoreVars>>

\* GetMetricsReadWait dropping the client of the server when the read fails
GetMetricsReadWaitClosing(c) ==
    /\ Running(c, "GetMetrics", "readWait")
    /\ calls' = [calls EXCEPT ![c] = GetMetricsWaitLen(@, LLen(c, @.waitList))]
    /\ redisClient' = IF LLen(c, calls[c].waitList).err # Nil THEN NoClient ELSE redisClient
    /\ UNCHANGED <<pc, exitCode, listener, env, rdb, pings, StoreVars>>

GetMetricsReadWait(c) ==
    /\ Running(c, "GetMetrics", "readWait")
    /\ calls' = [calls EXCEPT ![c] = GetMetricsWaitLen(@, LLen(c, @.waitList))]
    /\ UNCHANGED <<ProcessVars, StoreVars>>

\* GetMetricsReadActive adding to a wait length kept in a field that the calls share
GetMetricsReadActiveShared(c) ==
    /\ Running(c, "GetMetrics", "readActive")
    /\ \E d \in DOMAIN calls :
         /\ calls[d].op = "GetMetrics" /\ calls[d].pc = "readActive"
         /\ calls' = [calls EXCEPT ![c] =
                        GetMetricsActiveLen([@ EXCEPT !.waitLen = calls[d].waitLen],
                                            LLen(c, @.activeList))]
    /\ UNCHANGED <<ProcessVars, StoreVars>>

GetMetricsReadActive(c) ==
    /\ Running(c, "GetMetrics", "readActive")
    /\ calls' = [calls EXCEPT ![c] = GetMetricsActiveLen(@, LLen(c, @.activeList))]
    /\ UNCHANGED <<ProcessVars, StoreVars>>

\* grpcServer.Serve hands what the handler returned to the caller
Deliver(c) ==
    /\ pc = "serving"
    /\ calls[c].pc = "done"
    /\ calls' = [calls EXCEPT ![c] = IdleCall]
    /\ UNCHANGED <<ProcessVars, StoreVars>>

\* the caller cancels the context of its call, or its deadline passes
CancelCtx(c) ==
    /\ pc = "serving"
    /\ calls[c].pc \in {"readWait", "readActive"}
    /\ ~calls[c].cancelled
    /\ calls' = [calls EXCEPT ![c].cancelled = TRUE]
    /\ UNCHANGED <<ProcessVars, StoreVars>>

(***************************************************************************)
(* The store and its other clients (add-jobs.sh, the worker of the README),*)
(* observed while the process runs.                                        *)
(***************************************************************************)
ProcessRuns == pc \notin {"exited", "crashed"}

StoreDown ==
    /\ ProcessRuns /\ storeUp
    /\ storeUp' = FALSE
    /\ UNCHANGED <<ProcessVars, store, held, calls>>

StoreRecover ==
    /\ ProcessRuns /\ ~storeUp
    /\ storeUp' = TRUE
    /\ UNCHANGED <<ProcessVars, store, held, calls>>

\* add-jobs.sh: LPUSH $WAIT_QUEUE
ProducerPush ==
    /\ ProcessRuns /\ storeUp
    /\ store[WaitKey] < MaxLen
    /\ store' = [store EXCEPT ![WaitKey] = @ + 1]
    /\ UNCHANGED <<ProcessVars, storeUp, held, calls>>

\* worker: RPOP of the wait list
WorkerPop ==
    /\ ProcessRuns /\ storeUp
    /\ store[WaitKey] > 0 /\ held < NumWorkers
    /\ store' = [store EXCEPT ![WaitKey] = @ - 1]
    /\ held' = held + 1
    /\ UNCHANGED <<ProcessVars, storeUp, calls>>

\* worker: LPUSH to the active list
WorkerPush ==
    /\ ProcessRuns /\ storeUp
    /\ held > 0 /\ store[ActiveKey] < MaxLen
    /\ store' = [store EXCEPT ![ActiveKey] = @ + 1]
    /\ held' = held - 1
    /\ UNCHANGED <<ProcessVars, storeUp, calls>>

\* worker: LREM from the active list
WorkerDone ==
    /\ ProcessRuns /\ storeUp
    /\ store[ActiveKey] > 0
    /\ store' = [store EXCEPT ![ActiveKey] = @ - 1]
    /\ UNCHANGED <<ProcessVars, storeUp, held, calls>>

Next ==
    \/ MainListen \/ GetEnvHost \/ GetEnvPort \/ ValidatePort \/ NewClient \/ Ping
    \/ Serve \/ ServeFail \/ Sigterm
    \/ \E c \in Callers :
         \/ IsActiveBegin(c) \/ IsActiveReadWait(c) \/ IsActiveReadActive(c)
         \/ GetMetricSpec(c)
         \/ GetMetricsBegin(c) \/ GetMetricsPanic(c)
         \/ GetMetricsReadWait(c) \/ GetMetricsReadActive(c)
         \/ Deliver(c) \/ CancelCtx(c)
    \/ StoreDown \/ StoreRecover
    \/ ProducerPush \/ WorkerPop \/ WorkerPush \/ WorkerDone

Spec == Init /\ [][Next]_vars

(***************************************************************************)
(* Two callers against a serving process and a store whose contents stay   *)
(* fixed: KEDA's operator and KEDA's metrics server call the scaler at the *)
(* same time, each handler in a goroutine of its own.                      *)
(***************************************************************************)
ConcCallers == {"keda-operator", "keda-metrics-apiserver"}

\* three workload configurations: the two lists, one list named twice, no ceiling
ConcMetadatas ==
    { [waitList |-> WaitKey, activeList |-> ActiveKey, maxPods |-> "2"],
      [waitList |-> ActiveKey, activeList |-> ActiveKey, maxPods |-> "5"],
      [waitList |-> WaitKey, activeList |-> ActiveKey] }

ConcRefs ==
    { [namespace |-> ns, name |-> n, scalerMetadata |-> m] :
        ns \in Namespaces, n \in Names, m \in ConcMetadatas }

ConcGetMetricsRequests ==
    { [scaledObjectRef |-> r, metricName |-> "bull_queue_length"] : r \in ConcRefs }

InitConc ==
    /\ pc = "serving"
    /\ exitCode = -1
    /\ listener = TRUE
    /\ env = [REDIS_HOST |-> "redis", REDIS_PORT |-> "6379"]
    /\ rdb = [addr |-> <<"redis", "6379">>]
    /\ redisClient = rdb
    /\ pings = 1
    /\ storeUp = TRUE
    /\ store \in [StoreKeys -> 0..MaxLen]
    /\ held = 0
    /\ calls = [c \in ConcCallers |-> IdleCall]

NextConc ==
    \/ ServeFail \/ Sigterm
    \/ \E c \in ConcCallers :
         \/ IsActiveBeginWith(c, ConcRefs) \/ IsActiveReadWait(c) \/ IsActiveReadActive(c)
         \/ GetMetricSpecWith(c, ConcRefs)
         \/ GetMetricsBeginWith(c, ConcGetMetricsRequests) \/ GetMetricsPanic(c)
         \/ GetMetricsReadWait(c) \/ GetMetricsReadActive(c)
         \/ Deliver(c) \/ CancelCtx(c)

SpecConc == InitConc /\ [][NextConc]_vars

\* a store read returns: with the reply, or with the error of the context or of the
\* read timeout of the client
ReadsReturn ==
    \A c \in ConcCallers :
        /\ WF_vars(IsActiveReadWait(c)) /\ WF_vars(IsActiveReadActive(c))
        /\ WF_vars(GetMetricsReadWait(c)) /\ WF_vars(GetMetricsReadActive(c))

SpecConcFair == SpecConc /\ ReadsReturn

(***************************************************************************)
(* KEDA polling a serving process while producers and workers change the   *)
(* lists: one caller, the workload configurations of ConcMetadatas, and    *)
(* GetMetrics requests carrying any metric name.                           *)
(***************************************************************************)
PollGetMetricsRequests ==
    { [scaledObjectRef |-> r, metricName |-> mn] : r \in ConcRefs, mn \in MetricNames }

InitPoll ==
    /\ pc = "serving"
    /\ exitCode = -1
    /\ listener = TRUE
    /\ env = [REDIS_HOST |-> "redis", REDIS_PORT |-> "6379"]
    /\ rdb = [addr |-> <<"redis", "6379">>]
    /\ redisClient = rdb
    /\ pings = 1
    /\ storeUp = TRUE
    /\ store = [k \in StoreKeys |-> 0]
    /\ held = 0
    /\ calls = [c \in Callers |-> IdleCall]

NextPoll ==
    \/ ServeFail \/ Sigterm
    \/ \E c \in Callers :
         \/ IsActiveBeginWith(c, ConcRefs) \/ IsActiveReadWait(c) \/ IsActiveReadActive(c)
         \/ GetMetricSpecWith(c, ConcRefs)
         \/ GetMetricsBeginWith(c, PollGetMetricsRequests) \/ GetMetricsPanic(c)
         \/ GetMetricsReadWait(c) \/ GetMetricsReadActive(c)
         \/ Deliver(c) \/ CancelCtx(c)
    \/ StoreDown \/ StoreRecover
    \/ ProducerPush \/ WorkerPop \/ WorkerPush \/ WorkerDone

SpecPoll == InitPoll /\ [][NextPoll]_vars

\* a store read returns (reply, error of the context, or read timeout of the client),
\* and the gRPC server hands the return of a handler to the caller
CallsComplete ==
    \A c \in Callers :
        /\ WF_vars(IsActiveReadWait(c)) /\ WF_vars(IsActiveReadActive(c))
        /\ WF_vars(GetMetricsReadWait(c)) /\ WF_vars(GetMetricsReadActive(c))
        /\ WF_vars(Deliver(c))

SpecPollFair == SpecPoll /\ CallsComplete

(***************************************************************************)
(* The arithmetic of the handlers at its width.  LLen returns an int64 and *)
(* maxPods is an int64; an int64 is kept as its 64 bits in four 16-bit     *)
(* limbs, least significant first (the integers of TLC have 32 bits).      *)
(***************************************************************************)
\* the int64 of a small natural number
Int64Of(n) == <<n % 65536, n \div 65536, 0, 0>>

\* the sign bit
IsNegative64(a) == a[4] >= 32768

\* int64 addition of a 32-bit machine: the bits above the second limb are lost
Add64Narrow(a, b) ==
    LET s1 == a[1] + b[1]
        s2 == a[2] + b[2] + (s1 \div 65536)
    IN  <<s1 % 65536, s2 % 65536, 0, 0>>

\* Go's + on int64: two's complement addition, the carry out of bit 63 is dropped
Add64(a, b) ==
    LET s1 == a[1] + b[1]
        s2 == a[2] + b[2] + (s1 \div 65536)
        s3 == a[3] + b[3] + (s2 \div 65536)
        s4 == a[4] + b[4] + (s3 \div 65536)
    IN  <<s1 % 65536, s2 % 65536, s3 % 65536, s4 % 65536>>

\* Go's > on int64
Greater64(a, b) ==
    IF IsNegative64(a) # IsNegative64(b) THEN IsNegative64(b)
    ELSE \E i \in 1..4 : a[i] > b[i] /\ \A j \in (i + 1)..4 : a[j] = b[j]

\* IsActive, line 109, on int64 lengths
IsActiveResult64(waitLen, activeLen) == Greater64(Add64(waitLen, activeLen), Int64Of(0))

\* GetMetrics, lines 170-174, on int64 lengths and an int64 ceiling
MetricValue64(waitLen, activeLen, maxPods) ==
    LET total == Add64(waitLen, activeLen)
    IN  IF Greater64(total, maxPods) THEN maxPods ELSE total

\* list lengths up to the largest int64: 0, 1, 2^16 - 1, 2^16, 2^32 - 1, 2^62, 2^63 - 2, 2^63 - 1
WideLengths ==
    { <<0, 0, 0, 0>>, <<1, 0, 0, 0>>, <<65535, 0, 0, 0>>, <<0, 1, 0, 0>>,
      <<65535, 65535, 0, 0>>, <<0, 0, 0, 16384>>,
      <<65534, 65535, 65535, 32767>>, <<65535, 65535, 65535, 32767>> }

InitWide ==
    /\ pc = "serving"
    /\ exitCode = -1
    /\ listener = TRUE
    /\ env = [REDIS_HOST |-> "redis", REDIS_PORT |-> "6379"]
    /\ rdb = [addr |-> <<"redis", "6379">>]
    /\ redisClient = rdb
    /\ pings = 1
    /\ storeUp = TRUE
    /\ store \in [StoreKeys -> WideLengths]
    /\ held = 0
    /\ calls = [c \in Callers |-> IdleCall]

\* IsActive from entry to return against a reachable store, lines 80-111
IsActiveWide(c) ==
    /\ CanCall(c)
    /\ \E req \in ConcRefs :
         LET e == IsActiveResolve(req)
             w == LLen(c, e.waitList)
             a == LLen(c, e.activeList)
             q == Queried(Queried(e, e.waitList, w), e.activeList, a)
         IN  calls' = [calls EXCEPT ![c] =
                         IF e.pc = "done" THEN e
                         ELSE Returned(q, IsActiveResponse(IsActiveResult64(w.val, a.val)), Nil)]
    /\ UNCHANGED <<ProcessVars, StoreVars>>

\* GetMetrics from entry to return against a reachable store, lines 129-181
GetMetricsWide(c) ==
    /\ CanCall(c)
    /\ \E req \in ConcGetMetricsRequests :
         LET e == GetMetricsResolve(req)
             w == LLen(c, e.waitList)
             a == LLen(c, e.activeList)
             q == Queried(Queried(e, e.waitList, w), e.activeList, a)
         IN  calls' = [calls EXCEPT ![c] =
                         IF e.pc = "done" THEN e
                         ELSE Returned(q,
                                  [metricValues |->
                                     << [metricName |-> "bull_queue_length",
                                         metricValue |->
                                            MetricValue64(w.val, a.val, Int64Of(e.maxPods))] >>],
                                  Nil)]
    /\ UNCHANGED <<ProcessVars, StoreVars>>

NextWide ==
    \E c \in Callers : IsActiveWide(c) \/ GetMetricsWide(c) \/ Deliver(c)

SpecWide == InitWide /\ [][NextWide]_vars

(***************************************************************************)
(* The lists job by job.  store[key] is the list itself, head first, of    *)
(* the ids of its jobs, and held is the set of the jobs a worker has       *)
(* popped and not yet pushed.  A call records, next to its queries, the    *)
(* jobs that were in the two lists at the instant of each read.            *)
(***************************************************************************)
JobIds == 1..MaxLen

Elems(list) == {list[i] : i \in DOMAIN list}

\* the jobs in the wait list or the active list
InLists == Elems(store[WaitKey]) \cup Elems(store[ActiveKey])

\* the jobs a call in progress has seen at one of its reads
Remembered ==
    UNION UNION {Elems(calls[c].seen) : c \in {d \in DOMAIN calls : "seen" \in DOMAIN calls[d]}}

\* call, with the jobs in the lists at its read added to what it has seen
Observed(call, before) ==
    [f \in DOMAIN call \cup {"seen"} |->
        IF f = "seen" THEN Append(IF "seen" \in DOMAIN before THEN before.seen ELSE <<>>, InLists)
        ELSE call[f]]

\* s.redisClient.LLen(ctx, key).Result() issued by caller c, against the lists job by job
LLenOfList(c, key) ==
    IF calls[c].cancelled THEN [val |-> 0, err |-> Cancelled]
    ELSE IF ~storeUp THEN [val |-> 0, err |-> StoreUnavailable]
    ELSE [val |-> IF key \in DOMAIN store THEN Len(store[key]) ELSE 0, err |-> Nil]

\* the workloads configured with the wait list and the active list of the queue
JobsRefs ==
    {r \in ConcRefs : /\ r.scalerMetadata["waitList"] = WaitKey
                      /\ r.scalerMetadata["activeList"] = ActiveKey}

JobsGetMetricsRequests ==
    {[scaledObjectRef |-> r, metricName |-> "bull_queue_length"] : r \in JobsRefs}

InitJobs ==
    /\ pc = "serving"
    /\ exitCode = -1
    /\ listener = TRUE
    /\ env = [REDIS_HOST |-> "redis", REDIS_PORT |-> "6379"]
    /\ rdb = [addr |-> <<"redis", "6379">>]
    /\ redisClient = rdb
    /\ pings = 1
    /\ storeUp = TRUE
    /\ store = [k \in StoreKeys |-> <<>>]
    /\ held = {}
    /\ calls = [c \in Callers |-> IdleCall]

\* IsActiveReadWaitJobs asking for the length of the active list
IsActiveReadWaitJobsActiveFirst(c) ==
    /\ Running(c, "IsActive", "readWait")
    /\ calls' = [calls EXCEPT ![c] =
                   Observed(IsActiveWaitLen(@, LLenOfList(c, @.activeList)), @)]
    /\ UNCHANGED <<ProcessVars, StoreVars>>

\* IsActive, lines 97-101
IsActiveReadWaitJobs(c) ==
    /\ Running(c, "IsActive", "readWait")
    /\ calls' = [calls EXCEPT ![c] =
                   Observed(IsActiveWaitLen(@, LLenOfList(c, @.waitList)), @)]
    /\ UNCHANGED <<ProcessVars, StoreVars>>

\* IsActive, lines 103-109
IsActiveReadActiveJobs(c) ==
    /\ Running(c, "IsActive", "readActive")
    /\ calls' = [calls EXCEPT ![c] =
                   Observed(IsActiveActiveLen(@, LLenOfList(c, @.activeList)), @)]
    /\ UNCHANGED <<ProcessVars, StoreVars>>

\* GetMetrics, lines 158-162
GetMetricsReadWaitJobs(c) ==
    /\ Running(c, "GetMetrics", "readWait")
    /\ calls' = [calls EXCEPT ![c] =
                   Observed(GetMetricsWaitLen(@, LLenOfList(c, @.waitList)), @)]
    /\ UNCHANGED <<ProcessVars, StoreVars>>

\* GetMetrics, lines 164-181
GetMetricsReadActiveJobs(c) ==
    /\ Running(c, "GetMetrics", "readActive")
    /\ calls' = [calls EXCEPT ![c] =
                   Observed(GetMetricsActiveLen(@, LLenOfList(c, @.activeList)), @)]
    /\ UNCHANGED <<ProcessVars, StoreVars>>

\* add-jobs.sh: LPUSH $WAIT_QUEUE of a job no list, worker or call in progress knows
ProducerPushJob ==
    /\ ProcessRuns /\ storeUp
    /\ Len(store[WaitKey]) < MaxLen
    /\ LET free == JobIds \ (InLists \cup held \cup Remembered)
       IN  /\ free # {}
           /\ LET job == CHOOSE j \in free : \A k \in free : j <= k
              IN  store' = [store EXCEPT ![WaitKey] = <<job>> \o @]
    /\ UNCHANGED <<ProcessVars, storeUp, held, calls>>

\* worker: RPOP of the wait list
WorkerPopJob ==
    /\ ProcessRuns /\ storeUp
    /\ store[WaitKey] # <<>> /\ Cardinality(held) < NumWorkers
    /\ held' = held \cup {store[WaitKey][Len(store[WaitKey])]}
    /\ store' = [store EXCEPT ![WaitKey] = SubSeq(@, 1, Len(@) - 1)]
    /\ UNCHANGED <<ProcessVars, storeUp, calls>>

\* worker: LPUSH of the job it popped to the active list
WorkerPushJob ==
    /\ ProcessRuns /\ storeUp
    /\ Len(store[ActiveKey]) < MaxLen
    /\ \E job \in held :
         /\ store' = [store EXCEPT ![ActiveKey] = <<job>> \o @]
         /\ held' = held \ {job}
    /\ UNCHANGED <<ProcessVars, storeUp, calls>>

\* worker: LREM of its job from the active list
WorkerDoneJob ==
    /\ ProcessRuns /\ storeUp
    /\ \E i \in DOMAIN store[ActiveKey] :
         store' = [store EXCEPT ![ActiveKey] =
                     SubSeq(@, 1, i - 1) \o SubSeq(@, i + 1, Len(@))]
    /\ UNCHANGED <<ProcessVars, storeUp, held, calls>>

NextJobs ==
    \/ \E c \in Callers :
         \/ IsActiveBeginWith(c, JobsRefs)
         \/ IsActiveReadWaitJobs(c) \/ IsActiveReadActiveJobs(c)
         \/ GetMetricsBeginWith(c, JobsGetMetricsRequests)
         \/ GetMetricsReadWaitJobs(c) \/ GetMetricsReadActiveJobs(c)
         \/ Deliver(c)
    \/ ProducerPushJob \/ WorkerPopJob \/ WorkerPushJob \/ WorkerDoneJob

SpecJobs == InitJobs /\ [][NextJobs]_vars

(***************************************************************************)
(* The startup of the process alone, over a larger choice of REDIS_PORT.   *)
(***************************************************************************)
InitStartup ==
    /\ pc = "main"
    /\ exitCode = -1
    /\ listener = FALSE
    /\ env \in [REDIS_HOST : EnvHosts, REDIS_PORT : PortTexts]
    /\ rdb = NoClient
    /\ redisClient = NoClient
    /\ pings = 0
    /\ storeUp \in BOOLEAN
    /\ store = [k \in StoreKeys |-> 0]
    /\ held = 0
    /\ calls = [c \in Callers |-> IdleCall]

NextStartup ==
    \/ MainListen \/ GetEnvHost \/ GetEnvPort \/ ValidatePort \/ NewClient \/ Ping
    \/ Serve \/ ServeFail \/ Sigterm
    \/ StoreDown \/ StoreRecover

SpecStartup == InitStartup /\ [][NextStartup]_vars


(***************************************************************************)
(* Vocabulary of the properties.                                           *)
(***************************************************************************)
Min(a, b) == IF a < b THEN a ELSE b

\* the metadata mapping a call carries
MetadataOf(call) ==
    IF call.op = "GetMetrics" THEN call.req.scaledObjectRef.scalerMetadata
    ELSE call.req.scalerMetadata

\* the key is present with a non-empty value
Present(md, key) == key \in DOMAIN md /\ md[key] # ""

Unsigned(rs) == IF rs # <<>> /\ rs[1] \in {"+", "-"} THEN Tail(rs) ELSE rs

\* the text is a decimal numeral, optionally signed, denoting an integer > 0
EncodesPositiveInteger(rs) ==
    /\ Unsigned(rs) # <<>>
    /\ \A i \in 1..Len(Unsigned(rs)) : Unsigned(rs)[i] \in DigitRunes
    /\ rs[1] # "-"
    /\ \E i \in 1..Len(Unsigned(rs)) : Unsigned(rs)[i] # "0"

\* number of digits of the numeral from its first non-zero digit on
SignificantLen(ds) ==
    IF \A i \in 1..Len(ds) : ds[i] = "0" THEN 0
    ELSE Len(ds) + 1 - (CHOOSE i \in 1..Len(ds) : ds[i] # "0" /\ \A j \in 1..(i - 1) : ds[j] = "0")

\* the numeral denotes an integer below 2^63 = 9223372036854775808
BelowTwoTo63(rs) ==
    LET ds == Unsigned(rs)
        n == SignificantLen(ds)
        sig == [i \in 1..n |-> DigitVal(ds[Len(ds) - n + i])]
    IN  n < 19 \/ (n = 19 /\ NatLess(sig, CutoffInt64))

RECURSIVE DecimalValue(_)
DecimalValue(ds) ==
    IF ds = <<>> THEN 0
    ELSE 10 * DecimalValue(SubSeq(ds, 1, Len(ds) - 1)) + DigitVal(ds[Len(ds)])

\* the ceiling a valid maxPods text denotes
CeilingOf(md) == DecimalValue(Unsigned(Runes(md["maxPods"])))

ValidQueueNames(md) == Present(md, "waitList") /\ Present(md, "activeList")

ValidCeiling(md) ==
    /\ Present(md, "maxPods")
    /\ EncodesPositiveInteger(Runes(md["maxPods"]))
    /\ BelowTwoTo63(Runes(md["maxPods"]))

BothReadsSucceeded(call) ==
    /\ Len(call.queries) = 2
    /\ call.queries[1].err = Nil
    /\ call.queries[2].err = Nil

SomeReadFailed(call) == \E i \in 1..Len(call.queries) : call.queries[i].err # Nil

IsValidationError(err) == err.kind \in {"MissingMetadata", "InvalidCeiling"}

DoneCalls(op) == { c \in DOMAIN calls : calls[c].pc = "done" /\ calls[c].op = op }

(***************************************************************************)
(* C1: a GetMetrics call with valid metadata whose two reads succeed with  *)
(* lengths pending and active returns exactly one metric value equal to    *)
(* min(pending + active, maxPods).                                         *)
(***************************************************************************)
C1_MetricIsCappedSum ==
    \A c \in DoneCalls("GetMetrics") :
        LET call == calls[c]
            md == MetadataOf(call)
        IN  (ValidQueueNames(md) /\ ValidCeiling(md) /\ BothReadsSucceeded(call))
            => /\ call.ret.err = Nil
               /\ Len(call.ret.resp.metricValues) = 1
               /\ call.ret.resp.metricValues[1].metricValue
                    = Min(call.queries[1].val + call.queries[2].val, CeilingOf(md))

\* the scenario pending = 3, active = 2, ceiling = 10 -> 5
C1_Witness ==
    \E c \in DoneCalls("GetMetrics") :
        /\ BothReadsSucceeded(calls[c])
        /\ calls[c].queries[1].val = 3 /\ calls[c].queries[2].val = 2
        /\ MetadataOf(calls[c])["maxPods"] = "10"
        /\ calls[c].ret.resp.metricValues[1].metricValue = 5

(***************************************************************************)
(* C2: an IsActive call with valid metadata whose two reads succeed        *)
(* answers false when pending = 0 and active = 0 and true when             *)
(* pending + active > 0.                                                   *)
(***************************************************************************)
C2_ActiveIffWork ==
    \A c \in DoneCalls("IsActive") :
        LET call == calls[c]
        IN  (ValidQueueNames(MetadataOf(call)) /\ BothReadsSucceeded(call))
            => /\ call.ret.err = Nil
               /\ call.ret.resp.result
                    = ~(call.queries[1].val = 0 /\ call.queries[2].val = 0)

C2_Witness ==
    \E c \in DoneCalls("IsActive") :
        /\ BothReadsSucceeded(calls[c])
        /\ calls[c].queries[1].val = 0 /\ calls[c].queries[2].val > 0
        /\ calls[c].ret.resp.result = TRUE

(***************************************************************************)
(* C3: whenever metadata resolution or a store read of an IsActive call    *)
(* fails, the call returns an error, never a successful answer.            *)
(***************************************************************************)
C3_IsActiveFailureIsError ==
    \A c \in DoneCalls("IsActive") :
        (~ValidQueueNames(MetadataOf(calls[c])) \/ SomeReadFailed(calls[c]))
        => calls[c].ret.err # Nil

C3_Witness ==
    \E c \in DoneCalls("IsActive") :
        /\ Len(calls[c].queries) = 2
        /\ calls[c].queries[2].err = StoreUnavailable
        /\ calls[c].ret.err = StoreUnavailable


(***************************************************************************)
(* C4 as stated: a GetMetrics or IsActive call whose metadata is missing   *)
(* waitList, activeList or maxPods fails with a validation error and       *)
(* issues no store query.                                                  *)
(***************************************************************************)
C4_Original ==
    \A c \in DoneCalls("GetMetrics") \cup DoneCalls("IsActive") :
        LET md == MetadataOf(calls[c])
        IN  (~Present(md, "waitList") \/ ~Present(md, "activeList") \/ ~Present(md, "maxPods"))
            => /\ IsValidationError(calls[c].ret.err)
               /\ calls[c].queries = <<>>

\* the keys a handler resolves before its first store read
RequiredValid(call) ==
    IF call.op = "GetMetrics"
    THEN ValidQueueNames(MetadataOf(call)) /\ ValidCeiling(MetadataOf(call))
    ELSE ValidQueueNames(MetadataOf(call))

(***************************************************************************)
(* C4 amended: a GetMetrics call whose metadata is missing waitList,       *)
(* activeList or maxPods (or carries an invalid ceiling), and an IsActive  *)
(* call whose metadata is missing waitList or activeList, fails with a     *)
(* validation error and issues no store query: every key a handler         *)
(* requires is validated before its first length query.  IsActive does not *)
(* examine maxPods.                                                        *)
(***************************************************************************)
C4_ValidatedBeforeFirstQuery ==
    \A c \in Callers :
        (calls[c].op \in {"GetMetrics", "IsActive"} /\ ~RequiredValid(calls[c]))
        => /\ calls[c].pc = "done"
           /\ calls[c].queries = <<>>
           /\ IsValidationError(calls[c].ret.err)

C4_Witness ==
    \E c \in DoneCalls("GetMetrics") :
        /\ ValidQueueNames(MetadataOf(calls[c]))
        /\ "maxPods" \notin DOMAIN MetadataOf(calls[c])
        /\ calls[c].ret.err = MissingMetadata("maxPods")
        /\ calls[c].queries = <<>>
        /\ storeUp

(***************************************************************************)
(* C5: if metadata resolution, ceiling validation or either store read of  *)
(* a GetMetrics call fails, the call returns an error and its response     *)
(* carries no metric value.                                                *)
(***************************************************************************)
C5_NoPartialMetric ==
    \A c \in DoneCalls("GetMetrics") :
        (~RequiredValid(calls[c]) \/ SomeReadFailed(calls[c]))
        => /\ calls[c].ret.err # Nil
           /\ calls[c].ret.resp.metricValues = <<>>

\* the wait list was read, with jobs in it, and the active list could not be read
C5_Witness ==
    \E c \in DoneCalls("GetMetrics") :
        /\ Len(calls[c].queries) = 2
        /\ calls[c].queries[1].err = Nil /\ calls[c].queries[1].val > 0
        /\ calls[c].queries[2].err # Nil
        /\ calls[c].ret.err = calls[c].queries[2].err
        /\ calls[c].ret.resp.metricValues = <<>>

\* GetMetrics calls that reached the ceiling validation
CeilingChecked ==
    { c \in Callers : /\ calls[c].op = "GetMetrics"
                      /\ ValidQueueNames(MetadataOf(calls[c]))
                      /\ Present(MetadataOf(calls[c]), "maxPods") }

CeilingRejected(c) ==
    /\ calls[c].pc = "done"
    /\ calls[c].ret.err = InvalidCeiling(MetadataOf(calls[c])["maxPods"])
    /\ calls[c].queries = <<>>

(***************************************************************************)
(* C6 as stated: on every GetMetrics call the ceiling is accepted exactly  *)
(* when the maxPods text encodes a strictly positive integer.              *)
(***************************************************************************)
C6_Original ==
    \A c \in CeilingChecked :
        CeilingRejected(c) <=> ~EncodesPositiveInteger(Runes(MetadataOf(calls[c])["maxPods"]))

(***************************************************************************)
(* C6 amended: on every GetMetrics call the ceiling is accepted exactly    *)
(* when the maxPods text encodes a strictly positive integer that fits a   *)
(* signed 64-bit integer (1 .. 2^63 - 1): "0", "-5", "abc" and             *)
(* "9223372036854775808" are rejected with an invalid-ceiling error, "1"   *)
(* and "1000000" are accepted.                                             *)
(***************************************************************************)
C6_CeilingAcceptedIffPositiveInt64 ==
    \A c \in CeilingChecked :
        LET t == MetadataOf(calls[c])["maxPods"]
        IN  /\ CeilingRejected(c)
               <=> ~(EncodesPositiveInteger(Runes(t)) /\ BelowTwoTo63(Runes(t)))
            /\ t \in {"0", "-5", "abc"} => CeilingRejected(c)
            /\ t \in {"1", "1000000"} => ~CeilingRejected(c)

C6_Witness ==
    \E c \in CeilingChecked :
        /\ MetadataOf(calls[c])["maxPods"] = "1000000"
        /\ calls[c].pc = "done"
        /\ calls[c].ret.err = Nil

(***************************************************************************)
(* C7: GetMetricSpec returns the same descriptor, one metric spec named    *)
(* "bull_queue_length" with target size 1, for every scale-target          *)
(* reference and metadata mapping, without store access and without error, *)
(* whatever the state of the store.                                        *)
(***************************************************************************)
C7_MetricSpecConstant ==
    \A c \in DoneCalls("GetMetricSpec") :
        /\ calls[c].ret.err = Nil
        /\ calls[c].ret.resp
             = [metricSpecs |-> << [metricName |-> "bull_queue_length", targetSize |-> 1] >>]
        /\ calls[c].queries = <<>>

\* empty metadata, store unreachable
C7_Witness ==
    \E c \in DoneCalls("GetMetricSpec") :
        /\ DOMAIN MetadataOf(calls[c]) = {}
        /\ ~storeUp
        /\ calls[c].ret.err = Nil


\* the metadata lacks one of the three keys or its maxPods is not a valid ceiling
MetadataInvalid(md) == ~(ValidQueueNames(md) /\ ValidCeiling(md))

(***************************************************************************)
(* C8 as stated: an IsActive, GetMetricSpec or GetMetrics call whose       *)
(* metadata lacks waitList, activeList or maxPods, or whose maxPods does   *)
(* not encode a positive integer, results in a validation error.           *)
(***************************************************************************)
C8_Original ==
    \A c \in DoneCalls("IsActive") \cup DoneCalls("GetMetricSpec") \cup DoneCalls("GetMetrics") :
        MetadataInvalid(MetadataOf(calls[c])) => IsValidationError(calls[c].ret.err)

(***************************************************************************)
(* C8 amended: the keys are required per operation.  A GetMetrics call     *)
(* results in a validation error exactly when its metadata lacks waitList, *)
(* activeList or maxPods or its maxPods is not a positive 64-bit integer;  *)
(* an IsActive call exactly when its metadata lacks waitList or            *)
(* activeList (its maxPods is never examined); a GetMetricSpec call never. *)
(***************************************************************************)
C8_RequiredKeysPerOperation ==
    /\ \A c \in DoneCalls("GetMetrics") :
         IsValidationError(calls[c].ret.err) <=> MetadataInvalid(MetadataOf(calls[c]))
    /\ \A c \in DoneCalls("IsActive") :
         IsValidationError(calls[c].ret.err) <=> ~ValidQueueNames(MetadataOf(calls[c]))
    /\ \A c \in DoneCalls("GetMetricSpec") :
         ~IsValidationError(calls[c].ret.err)

\* an IsActive call without maxPods answers successfully
C8_Witness ==
    \E c \in DoneCalls("IsActive") :
        /\ "maxPods" \notin DOMAIN MetadataOf(calls[c])
        /\ calls[c].ret.err = Nil
        /\ calls[c].ret.resp.result = TRUE

\* the PING of NewServer was sent and failed
HandshakeFailed == pings > 0 /\ redisClient = NoClient /\ pc = "exited"

(***************************************************************************)
(* C9 as stated: the store handshake happens before the TCP listener is    *)
(* opened, so a listener is never bound in a run whose handshake fails.    *)
(***************************************************************************)
C9_NoListenerWhenHandshakeFails == HandshakeFailed => ~listener

\* the phase of the service lifetime
Phase ==
    CASE pc \in {"main", "getEnvHost", "getEnvPort", "validatePort", "newClient", "ping"}
           -> "Unconnected"
      [] pc = "serve" -> "Connected"
      [] pc = "serving" -> "Serving"
      [] OTHER -> "Exited"

(***************************************************************************)
(* C10: the service lifetime is Unconnected -> Connected -> Serving with   *)
(* no other path: Connected is entered only from Unconnected by a PING the *)
(* store answered, Serving only from Connected, calls are handled only in  *)
(* Serving, and a failed handshake ends the process with a non-zero exit   *)
(* code.                                                                   *)
(***************************************************************************)
C10_StartupStateMachine ==
    /\ [](\A c \in Callers : calls[c].pc # "idle" => Phase = "Serving" /\ pings = 1)
    /\ [](Phase \in {"Connected", "Serving"} => pings = 1 /\ redisClient # NoClient)
    /\ [][ /\ (Phase' = "Connected" /\ Phase # "Connected")
              => (Phase = "Unconnected" /\ pc = "ping" /\ storeUp)
           /\ (Phase' = "Serving" /\ Phase # "Serving") => Phase = "Connected"
           /\ (Phase' = "Unconnected") => Phase = "Unconnected"
           /\ (pc = "ping" /\ ~storeUp /\ pc' # pc) => (pc' = "exited" /\ exitCode' = 1)
           /\ (Phase = "Exited") => (Phase' = "Exited" /\ calls' = calls) ]_vars

C10_Witness ==
    /\ Phase = "Serving"
    /\ \E c \in DoneCalls("GetMetrics") : calls[c].ret.err = Nil

\* the text is a decimal numeral, optionally signed, denoting an integer in 1..65535
PortInRange(rs) ==
    /\ EncodesPositiveInteger(rs)
    /\ SignificantLen(Unsigned(rs)) <= 5
    /\ DecimalValue(Unsigned(rs)) <= 65535

\* REDIS_HOST or REDIS_PORT is unset or empty, or REDIS_PORT is not a valid port
ConfigInvalid ==
    \/ env.REDIS_HOST = ""
    \/ env.REDIS_PORT = ""
    \/ ~PortInRange(Runes(env.REDIS_PORT))

\* main stands at the check that the environment fails
AtFailingCheck ==
    \/ pc = "getEnvHost" /\ env.REDIS_HOST = ""
    \/ pc = "getEnvPort" /\ env.REDIS_PORT = ""
    \/ pc = "validatePort" /\ ~PortInRange(Runes(env.REDIS_PORT))

(***************************************************************************)
(* C11: when REDIS_HOST or REDIS_PORT is unset or empty, or REDIS_PORT is  *)
(* not a valid port, the process ends with a non-zero exit code at the     *)
(* failing check, without creating the store client, without pinging the   *)
(* store, without retrying and without ever serving a call.                *)
(***************************************************************************)
C11_ConfigErrorsAreFatal ==
    /\ [](ConfigInvalid =>
            /\ rdb = NoClient /\ redisClient = NoClient /\ pings = 0
            /\ pc \in {"main", "getEnvHost", "getEnvPort", "validatePort", "exited"}
            /\ \A c \in DOMAIN calls : calls[c] = IdleCall
            /\ (pc = "exited" => exitCode = 1))
    /\ [][ /\ (AtFailingCheck /\ pc' # pc) => (pc' = "exited" /\ exitCode' = 1)
           /\ (pc = "exited") => (pc' = "exited" /\ exitCode' = exitCode) ]_vars

\* the port 65536 was rejected after the listener was bound
C11_Witness ==
    /\ env.REDIS_HOST # "" /\ env.REDIS_PORT = "65536"
    /\ listener
    /\ pc = "exited" /\ exitCode = 1
    /\ rdb = NoClient /\ pings = 0

(***************************************************************************)
(* C12: REDIS_PORT is accepted exactly when it parses as an integer p with *)
(* 1 <= p <= 65535, and it is validated before it is used to build the     *)
(* address of the store client.                                            *)
(***************************************************************************)
C12_PortValidatedBeforeUse ==
    /\ [](rdb # NoClient =>
            /\ PortInRange(Runes(env.REDIS_PORT))
            /\ rdb = [addr |-> <<env.REDIS_HOST, env.REDIS_PORT>>])
    /\ [][ (pc = "validatePort" /\ pc' # pc) =>
             /\ rdb' = NoClient
             /\ IF PortInRange(Runes(env.REDIS_PORT))
                THEN pc' = "newClient" /\ exitCode' = exitCode
                ELSE pc' = "exited" /\ exitCode' = 1 ]_vars

C12_Witness ==
    /\ env.REDIS_PORT = "65535"
    /\ rdb = [addr |-> <<env.REDIS_HOST, "65535">>]

(***************************************************************************)
(* C13: no internal retry.  A call issues at most two length queries, the  *)
(* first for its wait list and the second for its active list, and a       *)
(* failed read is the last query of the call, whose error the call returns.*)
(***************************************************************************)
C13_NoRetry ==
    \A c \in DOMAIN calls :
        LET call == calls[c]
            q == call.queries
        IN  /\ Len(q) <= 2
            /\ Len(q) >= 1 => q[1].key = MetadataOf(call)["waitList"]
            /\ Len(q) = 2 => (q[2].key = MetadataOf(call)["activeList"] /\ q[1].err = Nil)
            /\ \A i \in 1..Len(q) :
                 q[i].err # Nil => (i = Len(q) /\ call.pc = "done" /\ call.ret.err = q[i].err)

\* the read of the wait list failed and was not issued again after the store recovered
C13_Witness ==
    \E c \in DOMAIN calls :
        /\ calls[c].pc = "done"
        /\ Len(calls[c].queries) = 1
        /\ calls[c].queries[1].err = StoreUnavailable
        /\ calls[c].ret.err = StoreUnavailable
        /\ storeUp

(***************************************************************************)
(* C14 as stated: per-call errors never crash the process; for any         *)
(* request, a GetMetrics request without scale-target reference included,  *)
(* the process stays in Serving.                                           *)
(***************************************************************************)
C14_PerCallErrorsNeverCrash == pc # "crashed" /\ exitCode # 2

\* caller c issued a length query in this step
ReadStep(c) == Len(calls'[c].queries) = Len(calls[c].queries) + 1

LastQuery(call) == call.queries[Len(call.queries)]

(***************************************************************************)
(* C16: an outage of the store changes no state of the service.  A length  *)
(* query issued while the store is down fails its call with an error and   *)
(* the service stays in Serving with the same client; a query issued once  *)
(* the store is reachable again returns the length of the list, without    *)
(* restart, reconnect or second PING; GetMetricSpec succeeds throughout.   *)
(***************************************************************************)
C16_OutageChangesNoServiceState ==
    /\ [](pc = "serving" => (pings = 1 /\ redisClient = rdb /\ redisClient # NoClient))
    /\ [](\A c \in DoneCalls("GetMetricSpec") : calls[c].ret.err = Nil)
    /\ [][ /\ storeUp' # storeUp => UNCHANGED <<ProcessVars, calls>>
           /\ \A c \in DOMAIN calls :
                ReadStep(c) =>
                  /\ UNCHANGED ProcessVars
                  /\ IF ~storeUp
                     THEN /\ LastQuery(calls'[c]).err # Nil
                          /\ calls'[c].pc = "done"
                          /\ calls'[c].ret.err = LastQuery(calls'[c]).err
                     ELSE ~calls[c].cancelled =>
                            /\ LastQuery(calls'[c]).err = Nil
                            /\ LastQuery(calls'[c]).val = store[LastQuery(calls'[c]).key] ]_vars

\* a call failed during an outage; the store is reachable again and the service serves
C16_Witness ==
    /\ pc = "serving" /\ storeUp
    /\ \E c \in DoneCalls("GetMetrics") :
         /\ ~calls[c].cancelled
         /\ calls[c].ret.err = StoreUnavailable

(***************************************************************************)
(* C17: the service never changes the store.  Every step of main, of       *)
(* NewServer and of a handler leaves the lists of the store (and the jobs  *)
(* held by workers) as they were, and the only commands the service sends  *)
(* are the one PING of startup and the length queries of the calls.        *)
(***************************************************************************)
C17_StoreIsOnlyRead ==
    /\ [](pings <= 1)
    /\ [][ (calls' # calls \/ ProcessVars' # ProcessVars) => UNCHANGED <<store, held, storeUp>> ]_vars

\* both lists hold jobs after a call has read them
C17_Witness ==
    \E c \in DoneCalls("IsActive") :
        /\ BothReadsSucceeded(calls[c])
        /\ calls[c].queries[1].key = WaitKey /\ calls[c].queries[2].key = ActiveKey
        /\ calls[c].queries[1].val = store[WaitKey] /\ store[WaitKey] > 0
        /\ calls[c].queries[2].val = store[ActiveKey] /\ store[ActiveKey] > 0

\* the error the metadata md of a call has for the operation op, Nil when it has none
RejectionOf(op, md) ==
    IF op = "GetMetricSpec" THEN Nil
    ELSE IF ~Present(md, "waitList") THEN MissingMetadata("waitList")
    ELSE IF ~Present(md, "activeList") THEN MissingMetadata("activeList")
    ELSE IF op = "GetMetrics" /\ ~Present(md, "maxPods") THEN MissingMetadata("maxPods")
    ELSE IF op = "GetMetrics" /\ ~ValidCeiling(md) THEN InvalidCeiling(md["maxPods"])
    ELSE Nil

\* the outcome a call has by its own metadata md and the results q of its own reads
OutcomeOf(op, md, q) ==
    LET none == IF op = "IsActive" THEN [result |-> FALSE] ELSE [metricValues |-> <<>>]
        fail(e) == [resp |-> none, err |-> e]
    IN  IF op = "GetMetricSpec"
        THEN [resp |-> [metricSpecs |-> << [metricName |-> "bull_queue_length",
                                             targetSize |-> 1] >>],
              err |-> Nil]
        ELSE IF RejectionOf(op, md) # Nil THEN fail(RejectionOf(op, md))
        ELSE IF q[1].err # Nil THEN fail(q[1].err)
        ELSE IF q[2].err # Nil THEN fail(q[2].err)
        ELSE IF op = "IsActive"
             THEN [resp |-> [result |-> q[1].val + q[2].val > 0], err |-> Nil]
             ELSE [resp |-> [metricValues |->
                               << [metricName |-> "bull_queue_length",
                                   metricValue |-> Min(q[1].val + q[2].val, CeilingOf(md))] >>],
                   err |-> Nil]

\* the lists a call reads by its own metadata: none, the wait list, or both
ListsToRead(op, md, q) ==
    IF op = "GetMetricSpec" \/ RejectionOf(op, md) # Nil THEN <<>>
    ELSE IF q[1].err # Nil THEN <<md["waitList"]>>
    ELSE <<md["waitList"], md["activeList"]>>

(***************************************************************************)
(* C18: no cross-call leakage.  Whatever calls came before, the outcome of *)
(* a call is the one determined by its own metadata and by the results of  *)
(* its own reads, and the lists it reads are the ones its own metadata     *)
(* names.                                                                  *)
(***************************************************************************)
C18_OutcomeFromOwnCallOnly ==
    \A c \in DOMAIN calls :
        calls[c].pc = "done" =>
            LET call == calls[c]
                md == MetadataOf(call)
            IN  /\ call.ret = OutcomeOf(call.op, md, call.queries)
                /\ [i \in 1..Len(call.queries) |-> call.queries[i].key]
                     = ListsToRead(call.op, md, call.queries)

\* a call that names the lists the other way round reads them that way round
C18_Witness ==
    \E c \in DoneCalls("GetMetrics") :
        /\ BothReadsSucceeded(calls[c])
        /\ MetadataOf(calls[c])["waitList"] = ActiveKey
        /\ MetadataOf(calls[c])["activeList"] = WaitKey
        /\ calls[c].queries[1].key = ActiveKey /\ calls[c].queries[1].val > 0
        /\ calls[c].queries[2].key = WaitKey /\ calls[c].queries[2].val = 0
        /\ calls[c].ret.err = Nil

(***************************************************************************)
(* C15: no call blocks indefinitely.  A store read of a call whose context *)
(* is cancelled (or past its deadline) returns the error of the context,   *)
(* and the call returns that error without a further read; every call that*)
(* has started its reads returns, or ends with the process.                *)
(***************************************************************************)
C15_NoCallBlocksForever ==
    /\ [](\A c \in DOMAIN calls :
            calls[c].cancelled =>
                \/ calls[c].pc \in {"readWait", "readActive"}
                \/ calls[c].pc = "done" /\ calls[c].ret.err = Cancelled)
    /\ [][ \A c \in DOMAIN calls :
             (ReadStep(c) /\ calls[c].cancelled) =>
                /\ LastQuery(calls'[c]).err = Cancelled
                /\ calls'[c].pc = "done"
                /\ calls'[c].ret.err = Cancelled ]_vars
    /\ \A c \in ConcCallers :
         (calls[c].pc \in {"readWait", "readActive"}) ~> (calls[c].pc \in {"done", "idle"})

\* a call was cancelled between its two reads and returned the error of its context
C15_Witness ==
    \E c \in DOMAIN calls :
        /\ calls[c].pc = "done" /\ calls[c].cancelled
        /\ Len(calls[c].queries) = 2
        /\ calls[c].queries[1].err = Nil
        /\ calls[c].queries[2].err = Cancelled
        /\ calls[c].ret.err = Cancelled

\* the reply of the store to a length query when nothing fails
Reply(key) == [val |-> IF key \in DOMAIN store THEN store[key] ELSE 0, err |-> Nil]

\* the handler of op run on req from entry to return with no other call in the
\* process: the steps of the handler one after the other against the store
RunAlone(op, req) ==
    IF op = "GetMetricSpec" THEN GetMetricSpecReturn(req).ret
    ELSE IF op = "IsActive"
         THEN LET e == IsActiveResolve(req)
                  w == IsActiveWaitLen(e, Reply(e.waitList))
              IN  IF e.pc = "done" THEN e.ret
                  ELSE IF w.pc = "done" THEN w.ret
                  ELSE IsActiveActiveLen(w, Reply(w.activeList)).ret
         ELSE LET e == GetMetricsResolve(req)
                  w == GetMetricsWaitLen(e, Reply(e.waitList))
              IN  IF e.pc = "done" THEN e.ret
                  ELSE IF w.pc = "done" THEN w.ret
                  ELSE GetMetricsActiveLen(w, Reply(w.activeList)).ret

(***************************************************************************)
(* C19: calls are independent and commute.  With the contents of the store *)
(* fixed, a call that runs before, after or between the store reads of     *)
(* another call, for the same workload or for another one, returns what it *)
(* returns when it runs alone (a call whose own read is cancelled aside).  *)
(***************************************************************************)
C19_CallsCommute ==
    \A c \in DOMAIN calls :
        (calls[c].pc = "done" /\ ~calls[c].cancelled) =>
            calls[c].ret = RunAlone(calls[c].op, calls[c].req)

\* two calls for different workloads with different lists have both returned their
\* own, different, metric values
C19_Witness ==
    \E c, d \in DoneCalls("GetMetrics") :
        /\ c # d
        /\ BothReadsSucceeded(calls[c]) /\ BothReadsSucceeded(calls[d])
        /\ calls[c].req.scaledObjectRef.name # calls[d].req.scaledObjectRef.name
        /\ calls[c].queries[1].key # calls[d].queries[1].key
        /\ calls[c].queries[1].val # calls[d].queries[1].val
        /\ calls[c].ret.err = Nil /\ calls[d].ret.err = Nil
        /\ calls[c].ret.resp # calls[d].ret.resp

\* pb.ScaledObjectRef of a call, whichever the operation
RefOf(call) == IF call.op = "GetMetrics" THEN call.req.scaledObjectRef ELSE call.req

(***************************************************************************)
(* C20: namespace and name never influence a decision.  Two calls of the   *)
(* same operation with the same metadata against the same store contents,  *)
(* neither of them cancelled, return the same response or error and query  *)
(* the same lists, whatever their namespace and name.                      *)
(***************************************************************************)
C20_ReferenceNeverUsedForLookup ==
    \A c, d \in DOMAIN calls :
        ( /\ calls[c].pc = "done" /\ calls[d].pc = "done"
          /\ calls[c].op = calls[d].op
          /\ MetadataOf(calls[c]) = MetadataOf(calls[d])
          /\ ~calls[c].cancelled /\ ~calls[d].cancelled )
        => /\ calls[c].ret = calls[d].ret
           /\ calls[c].queries = calls[d].queries

\* two IsActive calls for workloads of different names over a list named twice
C20_Witness ==
    \E c, d \in DoneCalls("IsActive") :
        /\ RefOf(calls[c]).name = "worker-a" /\ RefOf(calls[d]).name = "worker-b"
        /\ MetadataOf(calls[c]) = MetadataOf(calls[d])
        /\ MetadataOf(calls[c])["waitList"] = WaitKey
        /\ BothReadsSucceeded(calls[c]) /\ BothReadsSucceeded(calls[d])
        /\ calls[c].queries[1].val # calls[c].queries[2].val
        /\ calls[c].ret = calls[d].ret

(***************************************************************************)
(* C23: metadata resolution.  For the metadata of every call and every     *)
(* key, getMetadataValue returns the value of the key exactly when the key *)
(* is present with a non-empty value, and otherwise the missing-metadata   *)
(* error that names that key; the errors of different keys differ, and a   *)
(* call that returns such an error names a key its metadata lacks.         *)
(***************************************************************************)
C23_ResolutionNamesTheMissingKey ==
    /\ \A k1, k2 \in MetaKeys : k1 # k2 => MissingMetadata(k1) # MissingMetadata(k2)
    /\ \A c \in DOMAIN calls :
         calls[c].op # "none" =>
            LET call == calls[c]
                md == MetadataOf(call)
            IN  /\ \A key \in MetaKeys :
                     LET r == getMetadataValue(md, key)
                     IN  IF Present(md, key)
                         THEN r.err = Nil /\ r.value = md[key]
                         ELSE r.err.kind = "MissingMetadata" /\ r.err.key = key /\ r.value = ""
                /\ (call.pc = "done" /\ call.ret.err.kind = "MissingMetadata") =>
                      (call.ret.err.key \in MetaKeys /\ ~Present(md, call.ret.err.key))
                /\ call.pc \in {"readWait", "readActive"} =>
                      (call.waitList = md["waitList"] /\ call.activeList = md["activeList"])

\* the activeList key is there but empty: the call fails with the error naming activeList
C23_Witness ==
    \E c \in DoneCalls("IsActive") :
        LET md == MetadataOf(calls[c])
        IN  /\ Present(md, "waitList")
            /\ "activeList" \in DOMAIN md /\ md["activeList"] = ""
            /\ calls[c].ret.err = MissingMetadata("activeList")

(***************************************************************************)
(* C26: IsActive and GetMetrics agree on one snapshot of the store.  For   *)
(* every pair of lengths and every ceiling of at least 1 the activity      *)
(* decision is TRUE exactly when the metric value is above 0, and an       *)
(* IsActive call and a GetMetrics call that read the same lists of the     *)
(* same store contents return TRUE and a value above 0, or FALSE and 0.    *)
(***************************************************************************)
C26_ActiveIffMetricPositive ==
    /\ \A w, a \in 0..MaxLen : \A m \in 1..(2 * MaxLen + 1) :
         IsActiveResult(w, a) <=> (MetricValue(w, a, m) > 0)
    /\ \A c \in DoneCalls("IsActive") : \A d \in DoneCalls("GetMetrics") :
         ( /\ calls[c].ret.err = Nil /\ calls[d].ret.err = Nil
           /\ MetadataOf(calls[c])["waitList"] = MetadataOf(calls[d])["waitList"]
           /\ MetadataOf(calls[c])["activeList"] = MetadataOf(calls[d])["activeList"] )
         => ( calls[c].ret.resp.result
                <=> (calls[d].ret.resp.metricValues[1].metricValue > 0) )

\* more jobs than the ceiling: active, and the metric is the ceiling
C26_Witness ==
    \E c \in DoneCalls("IsActive") : \E d \in DoneCalls("GetMetrics") :
        /\ calls[c].ret.err = Nil /\ calls[d].ret.err = Nil
        /\ MetadataOf(calls[c])["waitList"] = MetadataOf(calls[d])["waitList"]
        /\ MetadataOf(calls[c])["activeList"] = MetadataOf(calls[d])["activeList"]
        /\ calls[d].queries[1].val + calls[d].queries[2].val > CeilingOf(MetadataOf(calls[d]))
        /\ calls[c].ret.resp.result
        /\ calls[d].ret.resp.metricValues[1].metricValue = CeilingOf(MetadataOf(calls[d]))

\* the checks of an operation in the order of the code, and the error of each
Checks(op) ==
    IF op = "IsActive" THEN <<"waitList", "activeList">>
    ELSE IF op = "GetMetrics" THEN <<"waitList", "activeList", "maxPods", "ceiling">>
    ELSE <<>>

Fails(md, check) ==
    IF check = "ceiling" THEN ~Present(md, "maxPods") \/ ~ValidCeiling(md)
    ELSE ~Present(md, check)

ErrorOfCheck(md, check) ==
    IF check = "ceiling" THEN InvalidCeiling(md["maxPods"]) ELSE MissingMetadata(check)

(***************************************************************************)
(* C28: validation has a fixed order and reports the first failure only.   *)
(* GetMetrics checks waitList, activeList, the presence of maxPods and     *)
(* that maxPods is a positive integer, IsActive checks waitList and        *)
(* activeList; a call whose metadata fails several checks returns the      *)
(* error of the earliest of them and reads nothing, and a call whose       *)
(* metadata passes them all returns no validation error.                   *)
(***************************************************************************)
C28_FirstFailureInFixedOrder ==
    \A c \in DOMAIN calls :
        (calls[c].pc = "done" /\ calls[c].op \in {"IsActive", "GetMetrics"}) =>
            LET call == calls[c]
                md == MetadataOf(call)
                chk == Checks(call.op)
                failing == { i \in 1..Len(chk) : Fails(md, chk[i]) }
            IN  IF failing = {}
                THEN ~IsValidationError(call.ret.err)
                ELSE LET first == CHOOSE i \in failing : \A j \in failing : i <= j
                     IN  /\ call.ret.err = ErrorOfCheck(md, chk[first])
                         /\ call.queries = <<>>

\* no waitList, no activeList and a ceiling that is not a number: the error is waitList's
C28_Witness ==
    \E c \in DoneCalls("GetMetrics") :
        LET md == MetadataOf(calls[c])
        IN  /\ ~Present(md, "waitList") /\ ~Present(md, "activeList")
            /\ "maxPods" \in DOMAIN md /\ md["maxPods"] = "abc"
            /\ calls[c].ret.err = MissingMetadata("waitList")

(***************************************************************************)
(* C30: the store reads short-circuit.  The length of the active list is   *)
(* asked for only after the read of the wait list has succeeded; when the  *)
(* read of the wait list fails the call returns that error and has made    *)
(* exactly one query.                                                      *)
(***************************************************************************)
C30_ReadsShortCircuit ==
    /\ [](\A c \in DOMAIN calls :
            LET call == calls[c]
                q == call.queries
            IN  /\ call.pc = "readActive" => (Len(q) = 1 /\ q[1].err = Nil)
                /\ Len(q) = 2 => (q[1].err = Nil /\ q[1].key = MetadataOf(call)["waitList"])
                /\ (Len(q) >= 1 /\ q[1].err # Nil) =>
                      (Len(q) = 1 /\ call.pc = "done" /\ call.ret.err = q[1].err))
    /\ [][ \A c \in DOMAIN calls :
             (ReadStep(c) /\ Len(calls[c].queries) = 1) =>
                (calls[c].queries[1].err = Nil /\ calls[c].pc = "readActive") ]_vars

\* the read of the wait list failed while the store was down: one query, that error
C30_Witness ==
    \E c \in DoneCalls("GetMetrics") :
        /\ ~storeUp /\ ~calls[c].cancelled
        /\ Len(calls[c].queries) = 1
        /\ calls[c].queries[1].key = MetadataOf(calls[c])["waitList"]
        /\ calls[c].queries[1].err = StoreUnavailable
        /\ calls[c].ret = [resp |-> EmptyMetricsResponse, err |-> StoreUnavailable]

(***************************************************************************)
(* C22: the only state that survives a call is the connection handle.  The *)
(* field of the server is assigned once, by NewServer after the PING, with *)
(* the client of the configured address, and never again; no step of a     *)
(* call writes it or any other state of the process, and the queue names,  *)
(* the ceiling and the counts of a call are gone when the call has         *)
(* returned.                                                               *)
(***************************************************************************)
C22_OnlyTheClientSurvivesACall ==
    /\ [](redisClient # NoClient =>
            redisClient = [addr |-> <<env.REDIS_HOST, env.REDIS_PORT>>])
    /\ [](\A c \in DOMAIN calls :
            calls[c].pc \in {"idle", "done"} =>
                /\ calls[c].waitList = "" /\ calls[c].activeList = ""
                /\ calls[c].maxPods = 0 /\ calls[c].waitLen = 0)
    /\ [][ /\ redisClient' # redisClient =>
                (pc = "ping" /\ redisClient = NoClient /\ redisClient' = rdb)
           /\ calls' # calls =>
                (/\ UNCHANGED <<listener, env, rdb, redisClient, pings>>
                 /\ pc' # pc => pc' \in {"exited", "crashed"}) ]_vars

\* a call has returned its metric and the server holds the client made at startup
C22_Witness ==
    /\ pc = "serving" /\ pings = 1
    /\ redisClient = [addr |-> <<"redis", "6379">>]
    /\ \E c \in DoneCalls("GetMetrics") :
         /\ BothReadsSucceeded(calls[c])
         /\ calls[c].ret.err = Nil
         /\ calls[c].queries[1].val > 0

\* what a call of op with metadata md returns for the list lengths s
SettledOutcome(op, md, s) ==
    LET total == s[md["waitList"]] + s[md["activeList"]]
    IN  IF op = "IsActive"
        THEN [resp |-> [result |-> total > 0], err |-> Nil]
        ELSE [resp |-> [metricValues |->
                          << [metricName |-> "bull_queue_length",
                              metricValue |-> Min(total, CeilingOf(md))] >>],
              err |-> Nil]

\* every call with valid metadata that has returned, its context not cancelled,
\* returned the outcome for the list lengths s
ReturnsAreFor(s) ==
    \A c \in DOMAIN calls :
        ( /\ calls[c].pc = "done"
          /\ calls[c].op \in {"IsActive", "GetMetrics"}
          /\ RejectionOf(calls[c].op, MetadataOf(calls[c])) = Nil
          /\ ~calls[c].cancelled )
        => calls[c].ret = SettledOutcome(calls[c].op, MetadataOf(calls[c]), s)

(***************************************************************************)
(* C21: the next poll corrects a race between the two reads.  If from some *)
(* point on the lengths of the two lists stay at s and the store stays     *)
(* reachable, then from some point on every GetMetrics call with valid     *)
(* metadata returns min(pending + active, ceiling) and every IsActive call *)
(* pending + active > 0 for the lengths s, whatever the calls returned     *)
(* that read the lists while they were changing.                           *)
(***************************************************************************)
C21_NextPollCorrectsTheRace ==
    \A s \in [StoreKeys -> 0..MaxLen] :
        (<>[](store = s /\ storeUp)) => <>[]ReturnsAreFor(s)

\* the race: a job moved from the wait to the active list between the two reads of a
\* call, and the call returned a total above the number of jobs in the two lists
C21_Witness ==
    \E c \in DoneCalls("GetMetrics") :
        /\ storeUp /\ BothReadsSucceeded(calls[c])
        /\ calls[c].queries[1].key = WaitKey /\ calls[c].queries[2].key = ActiveKey
        /\ calls[c].queries[1].val = 1 /\ calls[c].queries[2].val = 1
        /\ store[WaitKey] = 0 /\ store[ActiveKey] = 1 /\ held = 0
        /\ calls[c].ret.resp.metricValues[1].metricValue = 2

(***************************************************************************)
(* C29: every successful GetMetrics response holds exactly one metric      *)
(* value, named "bull_queue_length" as the metric GetMetricSpec            *)
(* advertises, whatever metricName the request carries.                    *)
(***************************************************************************)
C29_OneValueNamedAsAdvertised ==
    /\ \A c \in DoneCalls("GetMetrics") :
         calls[c].ret.err = Nil =>
            /\ Len(calls[c].ret.resp.metricValues) = 1
            /\ calls[c].ret.resp.metricValues[1].metricName = "bull_queue_length"
            /\ calls[c].ret.resp.metricValues[1].metricName
                 = MetricSpecResponse.metricSpecs[1].metricName
    /\ \A c \in DoneCalls("GetMetricSpec") :
         /\ Len(calls[c].ret.resp.metricSpecs) = 1
         /\ calls[c].ret.resp.metricSpecs[1].metricName = "bull_queue_length"

\* the request asked for a metric of another name
C29_Witness ==
    \E c \in DoneCalls("GetMetrics") :
        /\ calls[c].req.metricName = "other"
        /\ calls[c].ret.err = Nil
        /\ calls[c].ret.resp.metricValues[1].metricName = "bull_queue_length"
        /\ calls[c].ret.resp.metricValues[1].metricValue > 0

(***************************************************************************)
(* C24 as stated: on graceful shutdown the process exits with code 0; the  *)
(* request to shut down that reaches the service in Serving ends the       *)
(* process with exit code 0.                                               *)
(***************************************************************************)
C24_GracefulShutdownExitsZero == [][Sigterm => exitCode' = 0]_vars

\* natural numbers as decimal digit sequences, most significant digit first, zero empty
RECURSIVE DecOfNat(_)
DecOfNat(n) == IF n = 0 THEN <<>> ELSE Append(DecOfNat(n \div 10), n % 10)

\* n * k + c
RECURSIVE DecMulAdd(_, _, _)
DecMulAdd(n, k, c) ==
    IF n = <<>> THEN DecOfNat(c)
    ELSE LET v == n[Len(n)] * k + c
         IN  Append(DecMulAdd(SubSeq(n, 1, Len(n) - 1), k, v \div 10), v % 10)

\* a + b + c
RECURSIVE DecAdd(_, _, _)
DecAdd(a, b, c) ==
    IF a = <<>> /\ b = <<>> THEN DecOfNat(c)
    ELSE LET da == IF a = <<>> THEN 0 ELSE a[Len(a)]
             db == IF b = <<>> THEN 0 ELSE b[Len(b)]
             ra == IF a = <<>> THEN <<>> ELSE SubSeq(a, 1, Len(a) - 1)
             rb == IF b = <<>> THEN <<>> ELSE SubSeq(b, 1, Len(b) - 1)
             v == da + db + c
         IN  Append(DecAdd(ra, rb, v \div 10), v % 10)

\* the number a non-negative int64 denotes
DecOfInt64(x) ==
    DecMulAdd(DecMulAdd(DecMulAdd(DecOfNat(x[4]), 65536, x[3]), 65536, x[2]), 65536, x[1])

DecMin(a, b) == IF NatLess(b, a) THEN b ELSE a

(***************************************************************************)
(* C25: the sum of the two lengths does not wrap.  For non-negative int64  *)
(* lengths whose mathematical sum is at most 2^63 - 1, the 64-bit total    *)
(* denotes that sum, so GetMetrics returns min(sum, maxPods), a value in   *)
(* 0..maxPods, and IsActive returns TRUE exactly when the sum is not 0;    *)
(* on the lengths of the other specifications this arithmetic is the one   *)
(* of MetricValue and IsActiveResult.                                      *)
(***************************************************************************)
C25_SumDoesNotWrap ==
    /\ \A w, a \in 0..MaxLen : \A m \in 1..(MaxLen + 1) :
         /\ MetricValue64(Int64Of(w), Int64Of(a), Int64Of(m)) = Int64Of(MetricValue(w, a, m))
         /\ IsActiveResult64(Int64Of(w), Int64Of(a)) = IsActiveResult(w, a)
    /\ \A c \in DOMAIN calls :
         (calls[c].pc = "done" /\ BothReadsSucceeded(calls[c])) =>
            LET call == calls[c]
                w == call.queries[1].val
                a == call.queries[2].val
                sum == DecAdd(DecOfInt64(w), DecOfInt64(a), 0)
            IN  (~IsNegative64(w) /\ ~IsNegative64(a) /\ NatLess(sum, CutoffInt64)) =>
                  /\ ~IsNegative64(Add64(w, a))
                  /\ DecOfInt64(Add64(w, a)) = sum
                  /\ call.op = "IsActive" => (call.ret.resp.result <=> sum # <<>>)
                  /\ call.op = "GetMetrics" =>
                        LET v == call.ret.resp.metricValues[1].metricValue
                            m == DecOfNat(CeilingOf(MetadataOf(call)))
                        IN  /\ ~IsNegative64(v)
                            /\ DecOfInt64(v) = DecMin(sum, m)
                            /\ ~NatLess(m, DecOfInt64(v))

\* lengths 2^63 - 2 and 1: the sum is the largest int64, the value is the ceiling
C25_Witness ==
    \E c \in DoneCalls("GetMetrics") :
        /\ BothReadsSucceeded(calls[c])
        /\ calls[c].queries[1].val = <<65534, 65535, 65535, 32767>>
        /\ calls[c].queries[2].val = <<1, 0, 0, 0>>
        /\ Add64(calls[c].queries[1].val, calls[c].queries[2].val)
             = <<65535, 65535, 65535, 32767>>
        /\ calls[c].ret.resp.metricValues[1].metricValue
             = Int64Of(CeilingOf(MetadataOf(calls[c])))

\* the jobs that were in the wait list or the active list at both reads of a call
InListsAtBothReads(call) == call.seen[1] \cap call.seen[2]

\* C27: while producers only add jobs to the wait list and workers only pop a job
\* from the wait list, push it to the active list and remove it from there, a call
\* that read both lists asked for the wait list first and the active list second,
\* and the sum of the two lengths it read is at least the number of jobs that were
\* in one of the two lists at both reads: IsActive answers true when there is such
\* a job, and the value of GetMetrics is at least the lesser of that number and the
\* ceiling.
C27_SumCoversJobsPresentAtBothReads ==
    \A c \in DOMAIN calls :
        LET call == calls[c]
        IN  (call.pc = "done" /\ BothReadsSucceeded(call)) =>
              LET q == call.queries
                  n == Cardinality(InListsAtBothReads(call))
              IN  /\ q[1].key = WaitKey /\ q[2].key = ActiveKey
                  /\ q[1].val + q[2].val >= n
                  /\ call.op = "IsActive" => (n > 0 => call.ret.resp.result)
                  /\ call.op = "GetMetrics" =>
                       call.ret.resp.metricValues[1].metricValue
                          >= Min(n, CeilingOf(MetadataOf(call)))

\* a call between whose reads a worker moved a job from the wait list to the active
\* list has counted the job twice
C27_Witness ==
    \E c \in DOMAIN calls :
        LET call == calls[c]
        IN  /\ call.pc = "done" /\ call.op = "GetMetrics" /\ BothReadsSucceeded(call)
            /\ InListsAtBothReads(call) # {}
            /\ call.queries[1].val + call.queries[2].val
                 > Cardinality(call.seen[1] \cup call.seen[2])

====
